---- MODULE Spec2Model ----
(***************************************************************************)
(* Model of clippy_lints/src/methods/option_map_unwrap_or.rs: the lint     *)
(* `check` for `recv.map(<f>).unwrap_or(<a>)` on an Option, with its two   *)
(* HIR visitors, UnwrapVisitor (collects the locals used by <a>) and       *)
(* ReferenceVisitor (looks for an earlier reference to one of them).       *)
(*                                                                         *)
(* The HIR of the enclosing body is an arena of expression nodes.  Every   *)
(* call of a visitor's visit_expr is one step of the model; the recursion  *)
(* of walk_expr is kept as an explicit stack of pending visit_expr calls.  *)
(***************************************************************************)
EXTENDS Integers, Sequences, FiniteSets, TLC

\* ---------------------------------------------------------------- bounds
NumLocals == 2      \* local bindings x1 .. xNumLocals of the enclosing body
MaxCtxt == 1        \* syntax contexts 0 (source text) .. MaxCtxt (expansions)

Locals == 1..NumLocals
Ctxts == 0..MaxCtxt

\* ------------------------------------------------------ HIR of the body
\* What a path resolves to (rustc_hir::def::Res): a local binding or an item.
ResLocal(i) == [tag |-> "Local", id |-> i]
ResDef == [tag |-> "Def", id |-> 0]
NoRes == [tag |-> "NoRes", id |-> 0]

\* tcx.hir().find(local_id): the node a Res::Local points at is the pattern
\* that introduces the binding; PatKind::Binding carries the binding's id.
hir_find(id) ==
    IF id \in Locals
    THEN [node |-> "Pat", kind |-> "Binding", id |-> id]
    ELSE [node |-> "Other", kind |-> "Other", id |-> 0]

\* The let-chain shared by both visitors:
\*   Res::Local(local_id) = path.res
\*   && Some(Node::Pat(pat)) = hir().find(local_id)
\*   && PatKind::Binding(_, local_id, ..) = pat.kind
\* The result is the set holding the binding id, or the empty set.
LocalBinding(res) ==
    IF res.tag = "Local"
       /\ hir_find(res.id).node = "Pat"
       /\ hir_find(res.id).kind = "Binding"
    THEN {hir_find(res.id).id}
    ELSE {}

\* rustc_span::Span with the fields its ordering looks at.
MkSpan(lo, hi, ctxt) == [lo |-> lo, hi |-> hi, ctxt |-> ctxt]

\* `a < b` on spans, as used in ReferenceVisitor::visit_expr.  Span orders by
\* SpanData, field after field: lo, then hi, then ctxt.
SpanLt(a, b) ==
    \/ a.lo < b.lo
    \/ a.lo = b.lo /\ a.hi < b.hi
    \/ a.lo = b.lo /\ a.hi = b.hi /\ a.ctxt < b.ctxt

\* Span::with_lo / Span::with_hi
with_lo(s, lo) == [s EXCEPT !.lo = lo]
with_hi(s, hi) == [s EXCEPT !.hi = hi]

Expr(kind, span, res, text, kids) ==
    [kind |-> kind, span |-> span, res |-> res, text |-> text, kids |-> kids]

PathExpr(span, res, text) == Expr("Path", span, res, text, <<>>)

\* Source text of a path to local i, and what a name resolves to: the names
\* x1, x2, .. are the locals, every other name is an item (a function, a
\* constant, an enum variant such as None).
LocalName(i) == "x" \o ToString(i)
LocalNames == {LocalName(i) : i \in Locals}
ResOf(name) ==
    IF name \in LocalNames
    THEN ResLocal(CHOOSE i \in Locals : LocalName(i) = name)
    ELSE ResDef

\* Node ids of the candidate, as `check` receives them.
BodyRoot == 1       \* value of the enclosing body: a block
StmtNode == 2       \* an earlier statement of the block: a path expression
ExprNode == 3       \* expr:        recv.map(<f>).unwrap_or(<a>)
UnwrapRecv == 4     \* unwrap_recv: recv.map(<f>)
RecvNode == 5       \* recv
MapArg == 6         \* map_arg:     the closure |s| <path>
MapBodyNode == 7    \* the closure's body
UnwrapArg == 8      \* unwrap_arg:  <a>

\* Shapes of the unwrap_or argument <a>:
\*   "path"    p                      a bare path
\*   "method"  p.clone()              a method call whose receiver is a path
\*   "nested"  wrap(p, || { q })      a call with a closure holding a block

\* Everything outside <a>:   { s; r.map(|v| m).unwrap_or(<a>) }
\*   offsets:                0 2  10 12  16  20        36.. 50  60
Outer(s, r, m, argHi) ==
    (BodyRoot :> Expr("Block", MkSpan(0, 60, 0), NoRes, "", <<StmtNode, ExprNode>>))
    @@ (StmtNode :> PathExpr(MkSpan(2, 3, 0), ResOf(s), s))
    @@ (ExprNode :> Expr("MethodCall", MkSpan(10, argHi + 1, 0), NoRes, "",
                         <<UnwrapRecv, UnwrapArg>>))
    @@ (UnwrapRecv :> Expr("MethodCall", MkSpan(10, 25, 0), NoRes, "",
                           <<RecvNode, MapArg>>))
    @@ (RecvNode :> PathExpr(MkSpan(10, 11, 0), ResOf(r), r))
    @@ (MapArg :> Expr("Closure", MkSpan(16, 24, 0), NoRes, "", <<MapBodyNode>>))
    @@ (MapBodyNode :> PathExpr(MkSpan(20, 21, 0), ResOf(m), m))

ArgPath(p, c) ==
    (UnwrapArg :> PathExpr(MkSpan(36, 40, c), ResOf(p), p))

ArgMethod(p, c) ==
    (UnwrapArg :> Expr("MethodCall", MkSpan(36, 46, c), NoRes,
                       p \o ".clone()", <<9>>))
    @@ (9 :> PathExpr(MkSpan(36, 38, c), ResOf(p), p))

ArgNested(p, q, c) ==
    (UnwrapArg :> Expr("Call", MkSpan(36, 49, c), NoRes,
                       "wrap(" \o p \o ", || { " \o q \o " })",
                       <<9, 10, 11>>))
    @@ (9 :> PathExpr(MkSpan(36, 40, c), ResDef, "wrap"))
    @@ (10 :> PathExpr(MkSpan(41, 42, c), ResOf(p), p))
    @@ (11 :> Expr("Closure", MkSpan(43, 48, c), NoRes, "", <<12>>))
    @@ (12 :> Expr("Block", MkSpan(45, 48, c), NoRes, "", <<13>>))
    @@ (13 :> PathExpr(MkSpan(46, 47, c), ResOf(q), q))

\* What a path outside / inside <a> may name.
OuterNames == LocalNames \cup {"foo"}
ArgNames == LocalNames \cup {"foo", "None"}

Bodies(c) ==
    { Outer(s, r, m, 40) @@ ArgPath(p, c) :
        s \in OuterNames, r \in OuterNames, m \in OuterNames, p \in ArgNames }
    \cup
    { Outer(s, r, m, 46) @@ ArgMethod(p, c) :
        s \in OuterNames, r \in OuterNames, m \in OuterNames, p \in LocalNames }
    \cup
    { Outer(s, "foo", m, 49) @@ ArgNested(p, q, c) :
        s \in OuterNames, m \in OuterNames, p \in OuterNames, q \in OuterNames }


\* ------------------------------------------------------------- the state
VARIABLES
    body,               \* HIR of the enclosing body: node id -> expression
    is_option,          \* is_type_diagnostic_item(cx, expr_ty(recv), sym::Option)
    is_copy,            \* is_copy(cx, expr_ty(unwrap_arg))
    map_span,           \* span of the `map` method name
    pc,                 \* where `check` is
    collect_root,       \* the expression the UnwrapVisitor was started on
    unwrap_identifiers, \* UnwrapVisitor.identifiers
    unwrap_stack,       \* pending visit_expr calls of UnwrapVisitor
    ref_identifiers,    \* ReferenceVisitor.identifiers
    found_reference,    \* ReferenceVisitor.found_reference
    unwrap_or_span,     \* ReferenceVisitor.unwrap_or_span
    ref_stack,          \* pending visit_expr calls of ReferenceVisitor
    tested,             \* history: nodes the conflict test was evaluated on
    descended,          \* history: nodes walk_expr was called on by the scanner
    applicability,      \* the local `applicability`
    unwrap_snippet,     \* the local `unwrap_snippet`
    diags               \* diagnostics emitted through span_lint_and_then

inputs == <<body, is_option, is_copy, map_span>>
unwrap_visitor == <<collect_root, unwrap_identifiers, unwrap_stack>>
reference_visitor ==
    <<ref_identifiers, found_reference, unwrap_or_span, ref_stack, tested, descended>>
locals == <<applicability, unwrap_snippet>>
vars == <<inputs, pc, unwrap_visitor, reference_visitor, locals, diags>>

NoSpan == MkSpan(0, 0, 0)
NoNode == 0

Init ==
    /\ \E c \in Ctxts : body \in Bodies(c)
    /\ is_option \in BOOLEAN
    /\ is_copy \in BOOLEAN
    /\ \E c \in Ctxts : map_span = MkSpan(12, 15, c)
    /\ pc = "start"
    /\ collect_root = NoNode
    /\ unwrap_identifiers = {}
    /\ unwrap_stack = <<>>
    /\ ref_identifiers = {}
    /\ found_reference = FALSE
    /\ unwrap_or_span = NoSpan
    /\ ref_stack = <<>>
    /\ tested = {}
    /\ descended = {}
    /\ applicability = "Unset"
    /\ unwrap_snippet = ""
    /\ diags = <<>>

\* ------------------------------------------------------------- traversal
\* type NestedFilter = nested_filter::All, in both visitors: the walk enters
\* the bodies of nested closures.
UnwrapNestedFilter_OnlyBodies == "OnlyBodies"
UnwrapNestedFilter == "All"
ReferenceNestedFilter_OnlyBodies == "OnlyBodies"
ReferenceNestedFilter == "All"

\* intravisit::walk_expr: the visit_expr calls it makes, in order.  A closure's
\* body is a nested body, entered only under nested_filter::All.
walk_expr(n, filter) ==
    IF body[n].kind = "Closure" /\ filter # "All" THEN <<>> ELSE body[n].kids

\* ----------------------------------------------------------------- check
\* line 32: the receiver of map() is not an Option: nothing is linted.
NotOption ==
    /\ pc = "start"
    /\ ~is_option
    /\ pc' = "done"
    /\ UNCHANGED <<inputs, unwrap_visitor, reference_visitor, locals, diags>>

CopyArg_RunsVisitors ==
    /\ pc = "start"
    /\ is_option
    /\ is_copy
    /\ collect_root' = UnwrapArg
    /\ unwrap_identifiers' = {}
    /\ unwrap_stack' = <<UnwrapArg>>
    /\ pc' = "collect"
    /\ UNCHANGED <<inputs, reference_visitor, locals, diags>>

\* line 33: the argument's type is Copy: the visitors are not run.
CopyArg ==
    /\ pc = "start"
    /\ is_option
    /\ is_copy
    /\ pc' = "ctxt"
    /\ UNCHANGED <<inputs, unwrap_visitor, reference_visitor, locals, diags>>

CollectRoot_MapArg == MapArg

\* line 55: the expression the UnwrapVisitor is started on.
CollectRoot == UnwrapArg

\* lines 33, 51-55: the argument's type is not Copy: build the UnwrapVisitor
\* and call visit_expr(unwrap_arg).
MoveArg ==
    /\ pc = "start"
    /\ is_option
    /\ ~is_copy
    /\ collect_root' = CollectRoot
    /\ unwrap_identifiers' = {}
    /\ unwrap_stack' = <<CollectRoot>>
    /\ pc' = "collect"
    /\ UNCHANGED <<inputs, reference_visitor, locals, diags>>

\* UnwrapVisitor::visit_path on the path of node n (no path unless n is a path
\* expression): the identifiers after the call.
visit_path(ids, n) ==
    IF body[n].kind = "Path" THEN ids \cup LocalBinding(body[n].res) ELSE ids

\* One visit_expr of the UnwrapVisitor (the default one: walk_expr, which
\* reaches visit_path for a path expression and visit_expr for the children).
UnwrapVisitExpr ==
    /\ pc = "collect"
    /\ unwrap_stack # <<>>
    /\ LET n == Head(unwrap_stack) IN
        /\ unwrap_identifiers' = visit_path(unwrap_identifiers, n)
        /\ unwrap_stack' = walk_expr(n, UnwrapNestedFilter) \o Tail(unwrap_stack)
    /\ UNCHANGED <<inputs, pc, collect_root, reference_visitor, locals, diags>>

\* lines 57-66: build the ReferenceVisitor and call visit_body on the
\* enclosing body.
StartScan ==
    /\ pc = "collect"
    /\ unwrap_stack = <<>>
    /\ ref_identifiers' = unwrap_identifiers
    /\ found_reference' = FALSE
    /\ unwrap_or_span' = body[UnwrapArg].span
    /\ ref_stack' = <<BodyRoot>>
    /\ pc' = "scan"
    /\ UNCHANGED <<inputs, unwrap_visitor, tested, descended, locals, diags>>

\* lines 152-158: the test ReferenceVisitor::visit_expr makes on node n.
ConflictTest(n) ==
    /\ SpanLt(body[n].span, unwrap_or_span)
    /\ body[n].kind = "Path"
    /\ LocalBinding(body[n].res) \cap ref_identifiers # {}

\* lines 151-163, found_reference still false: test the node, then walk it.
RefVisitExpr ==
    /\ pc = "scan"
    /\ ref_stack # <<>>
    /\ ~found_reference
    /\ LET n == Head(ref_stack) IN
        /\ found_reference' = ConflictTest(n)
        /\ tested' = tested \cup {n}
        /\ descended' = descended \cup {n}
        /\ ref_stack' = walk_expr(n, ReferenceNestedFilter) \o Tail(ref_stack)
    /\ UNCHANGED <<inputs, pc, unwrap_visitor, ref_identifiers, unwrap_or_span,
                   locals, diags>>

RefSkipExpr_TestsAgain ==
    /\ pc = "scan"
    /\ ref_stack # <<>>
    /\ found_reference
    /\ LET n == Head(ref_stack) IN
        /\ found_reference' = ConflictTest(n)
        /\ tested' = tested \cup {n}
        /\ descended' = descended \cup {n}
        /\ ref_stack' = walk_expr(n, ReferenceNestedFilter) \o Tail(ref_stack)
    /\ UNCHANGED <<inputs, pc, unwrap_visitor, ref_identifiers, unwrap_or_span,
                   locals, diags>>

\* line 151, found_reference already true: visit_expr returns at once.
RefSkipExpr ==
    /\ pc = "scan"
    /\ ref_stack # <<>>
    /\ found_reference
    /\ ref_stack' = Tail(ref_stack)
    /\ UNCHANGED <<inputs, pc, unwrap_visitor, ref_identifiers, found_reference,
                   unwrap_or_span, tested, descended, locals, diags>>

\* lines 68-70: a reference was found: return without linting.
ConflictReturn ==
    /\ pc = "scan"
    /\ ref_stack = <<>>
    /\ found_reference
    /\ pc' = "done"
    /\ UNCHANGED <<inputs, unwrap_visitor, reference_visitor, locals, diags>>

\* line 68: no reference was found: go on.
NoConflict ==
    /\ pc = "scan"
    /\ ref_stack = <<>>
    /\ ~found_reference
    /\ pc' = "ctxt"
    /\ UNCHANGED <<inputs, unwrap_visitor, reference_visitor, locals, diags>>

CtxtMismatch_GoesOn ==
    /\ pc = "ctxt"
    /\ body[UnwrapArg].span.ctxt # map_span.ctxt
    /\ applicability' = "MachineApplicable"
    /\ pc' = "snippet"
    /\ UNCHANGED <<inputs, unwrap_visitor, reference_visitor, unwrap_snippet, diags>>

\* lines 73-75: the argument and `map` are in different syntax contexts.
CtxtMismatch ==
    /\ pc = "ctxt"
    /\ body[UnwrapArg].span.ctxt # map_span.ctxt
    /\ pc' = "done"
    /\ UNCHANGED <<inputs, unwrap_visitor, reference_visitor, locals, diags>>

\* lines 73, 77: same syntax context: applicability starts MachineApplicable.
CtxtMatch ==
    /\ pc = "ctxt"
    /\ body[UnwrapArg].span.ctxt = map_span.ctxt
    /\ applicability' = "MachineApplicable"
    /\ pc' = "snippet"
    /\ UNCHANGED <<inputs, unwrap_visitor, reference_visitor, unwrap_snippet, diags>>

\* clippy_utils::source::snippet_with_applicability(cx, span, default, &mut
\* applicability): the (text, applicability) pairs it can leave.  The text is
\* the source text of the span, or the default with a downgraded
\* applicability when the text cannot be had; a span from an expansion
\* downgrades the applicability as well.
snippet_with_applicability(n, default, app) ==
    LET app1 == IF app # "Unspecified" /\ body[n].span.ctxt # 0
                THEN "MaybeIncorrect" ELSE app
    IN  { [text |-> body[n].text, app |-> app1],
          [text |-> default,
           app |-> IF app1 = "MachineApplicable" THEN "HasPlaceholders" ELSE app1] }

\* line 79
GetSnippet ==
    /\ pc = "snippet"
    /\ \E r \in snippet_with_applicability(UnwrapArg, "..", applicability) :
        /\ unwrap_snippet' = r.text
        /\ applicability' = r.app
    /\ pc' = "emit"
    /\ UNCHANGED <<inputs, unwrap_visitor, reference_visitor, diags>>

\* lines 83-93: the message (the backquotes of the Rust text are written as
\* single quotes here).
MsgArg(snippet) == IF snippet = "None" THEN "None" ELSE "<a>"
Suggest(snippet) == IF snippet = "None" THEN "and_then(<f>)" ELSE "map_or(<a>, <f>)"
Msg(snippet) ==
    "called 'map(<f>).unwrap_or(" \o MsgArg(snippet) \o ")' on an 'Option' value. "
    \o "This can be done more directly by calling '" \o Suggest(snippet)
    \o "' instead"

Suggestion_AlwaysInserts(snippet) ==
    LET unwrap_snippet_none == snippet = "None"
        map_arg_span == body[MapArg].span
    IN  << [span |-> map_span,
            text |-> IF unwrap_snippet_none THEN "and_then" ELSE "map_or"],
           [span |-> with_lo(body[ExprNode].span, body[UnwrapRecv].span.hi),
            text |-> ""],
           [span |-> with_hi(map_arg_span, map_arg_span.lo),
            text |-> snippet \o ", "] >>

\* lines 96-108: the parts of the multipart suggestion.
Suggestion(snippet) ==
    LET unwrap_snippet_none == snippet = "None"
        map_arg_span == body[MapArg].span
        base == << [span |-> map_span,
                    text |-> IF unwrap_snippet_none THEN "and_then" ELSE "map_or"],
                   [span |-> with_lo(body[ExprNode].span, body[UnwrapRecv].span.hi),
                    text |-> ""] >>
    IN  IF ~unwrap_snippet_none
        THEN Append(base, [span |-> with_hi(map_arg_span, map_arg_span.lo),
                           text |-> snippet \o ", "])
        ELSE base

Emit_SkipsNone ==
    /\ pc = "emit"
    /\ diags' = IF unwrap_snippet = "None"
                THEN diags
                ELSE Append(diags,
                            [span |-> body[ExprNode].span,
                             msg |-> Msg(unwrap_snippet),
                             help |-> "use '" \o Suggest(unwrap_snippet) \o "' instead",
                             suggestion |-> Suggestion(unwrap_snippet),
                             applicability |-> applicability])
    /\ pc' = "done"
    /\ UNCHANGED <<inputs, unwrap_visitor, reference_visitor, locals>>

Emit_MachineApplicable ==
    /\ pc = "emit"
    /\ diags' = Append(diags,
                       [span |-> body[ExprNode].span,
                        msg |-> Msg(unwrap_snippet),
                        help |-> "use '" \o Suggest(unwrap_snippet) \o "' instead",
                        suggestion |-> Suggestion(unwrap_snippet),
                        applicability |-> "MachineApplicable"])
    /\ pc' = "done"
    /\ UNCHANGED <<inputs, unwrap_visitor, reference_visitor, locals>>

\* lines 95-111: span_lint_and_then with the multipart suggestion.
Emit ==
    /\ pc = "emit"
    /\ diags' = Append(diags,
                       [span |-> body[ExprNode].span,
                        msg |-> Msg(unwrap_snippet),
                        help |-> "use '" \o Suggest(unwrap_snippet) \o "' instead",
                        suggestion |-> Suggestion(unwrap_snippet),
                        applicability |-> applicability])
    /\ pc' = "done"
    /\ UNCHANGED <<inputs, unwrap_visitor, reference_visitor, locals>>

Next ==
    \/ NotOption
    \/ CopyArg
    \/ MoveArg
    \/ UnwrapVisitExpr
    \/ StartScan
    \/ RefVisitExpr
    \/ RefSkipExpr
    \/ ConflictReturn
    \/ NoConflict
    \/ CtxtMismatch
    \/ CtxtMatch
    \/ GetSnippet
    \/ Emit

Spec == Init /\ [][Next]_vars

TypeOK ==
    /\ pc \in {"start", "collect", "scan", "ctxt", "snippet", "emit", "done"}
    /\ unwrap_identifiers \subseteq Locals
    /\ ref_identifiers \subseteq Locals
    /\ found_reference \in BOOLEAN
    /\ tested \subseteq DOMAIN body
    /\ Len(diags) <= 1


\* ------------------------------------------- the UnwrapVisitor on its own
\* The UnwrapVisitor started on any expression of the body.
InitCollector ==
    /\ \E c \in Ctxts : body \in Bodies(c)
    /\ is_option = TRUE
    /\ is_copy = FALSE
    /\ map_span = MkSpan(12, 15, 0)
    /\ pc = "collect"
    /\ collect_root \in DOMAIN body
    /\ unwrap_identifiers = {}
    /\ unwrap_stack = <<collect_root>>
    /\ ref_identifiers = {}
    /\ found_reference = FALSE
    /\ unwrap_or_span = NoSpan
    /\ ref_stack = <<>>
    /\ tested = {}
    /\ descended = {}
    /\ applicability = "Unset"
    /\ unwrap_snippet = ""
    /\ diags = <<>>

\* The visitor's visit_expr has returned.
CollectorReturns ==
    /\ pc = "collect"
    /\ unwrap_stack = <<>>
    /\ pc' = "collected"
    /\ UNCHANGED <<inputs, unwrap_visitor, reference_visitor, locals, diags>>

NextCollector ==
    \/ UnwrapVisitExpr
    \/ CollectorReturns

SpecCollector == InitCollector /\ [][NextCollector]_vars

\* ------------------------------------------------------------ properties
RECURSIVE Descendants(_)
\* The nodes of the sub-tree at n, nested closure bodies and blocks included.
Descendants(n) ==
    {n} \cup UNION { Descendants(body[n].kids[i]) : i \in 1..Len(body[n].kids) }

PathNodes == { n \in DOMAIN body : body[n].kind = "Path" }

\* The local bindings that path expressions of the sub-tree at n resolve to.
LocalsReferencedIn(n) ==
    { body[k].res.id : k \in { d \in Descendants(n) \cap PathNodes :
                                 body[d].res.tag = "Local" } }

\* Path expressions that resolve to local b and start before the unwrap_or
\* argument starts.
EarlierReferences(b) ==
    { n \in PathNodes : /\ body[n].res = ResLocal(b)
                        /\ body[n].span.lo < body[UnwrapArg].span.lo }

SameCtxt == body[UnwrapArg].span.ctxt = map_span.ctxt
Emitted == diags # <<>>

\* C1: Option receiver, non-Copy unwrap_or argument that references a local B,
\* and a path reference to B anywhere in the body positioned before the
\* argument: check emits no suggestion.
C1_NoSuggestionOnEarlierReference ==
    ( /\ is_option
      /\ ~is_copy
      /\ \E b \in LocalsReferencedIn(UnwrapArg) : EarlierReferences(b) # {} )
    => ~Emitted

\* C1 witness: check has returned on a conflict whose first match is the
\* reference inside the map closure.
C1_Witness ==
    /\ pc = "done"
    /\ is_option
    /\ ~is_copy
    /\ found_reference
    /\ MapBodyNode \in tested
    /\ \E b \in LocalsReferencedIn(UnwrapArg) : EarlierReferences(b) = {MapBodyNode}
    /\ ~Emitted

\* C2: Option receiver and Copy unwrap_or argument: neither visitor is ever
\* run, and check emits a suggestion exactly when the argument's span and the
\* map span have the same syntax context.
C2_CopySkipsScanner ==
    (is_option /\ is_copy)
    => /\ pc \notin {"collect", "scan"}
       /\ tested = {}
       /\ descended = {}
       /\ ~found_reference
       /\ pc = "done" => (Emitted <=> SameCtxt)

\* C2 witness: a suggestion was emitted for a Copy argument although the body
\* holds an earlier reference to a local used in the argument.
C2_Witness ==
    /\ pc = "done"
    /\ is_option
    /\ is_copy
    /\ Emitted
    /\ \E b \in LocalsReferencedIn(UnwrapArg) : EarlierReferences(b) # {}

\* C3: when the syntax context of the unwrap_or argument's span differs from
\* that of the map span, check emits no suggestion, whatever the type and the
\* scanner's verdict.
C3_NoSuggestionAcrossContexts ==
    ~SameCtxt => ~Emitted

\* C3 witness: check passed the scanner without a conflict and returned at
\* the context test.
C3_Witness ==
    /\ pc = "done"
    /\ is_option
    /\ ~is_copy
    /\ tested = DOMAIN body
    /\ ~found_reference
    /\ ~SameCtxt
    /\ ~Emitted

\* C4: once the scan is over, found_reference is true exactly when some path
\* expression of the body resolves to a collected binding and has a span that
\* starts strictly before the start of the unwrap_or argument's span.
C4_ConflictIffStartsStrictlyBefore ==
    (pc = "scan" /\ ref_stack = <<>>)
    => ( found_reference
         <=> \E n \in PathNodes :
                /\ LocalBinding(body[n].res) \cap ref_identifiers # {}
                /\ body[n].span.lo < unwrap_or_span.lo )

\* C5: every emitted suggestion has two parts (map -> and_then, the deletion
\* from the end of the unwrap_or receiver to the end of the expression) when
\* the snippet is None, and else three parts (map -> map_or, the same
\* deletion, the snippet and ", " inserted at the start of the map argument)
\* with the <a> placeholder in the message.
C5_EditShape ==
    \A i \in 1..Len(diags) :
        LET parts == diags[i].suggestion
            deletion == [span |-> MkSpan(body[UnwrapRecv].span.hi,
                                         body[ExprNode].span.hi,
                                         body[ExprNode].span.ctxt),
                         text |-> ""]
            insertion == [span |-> MkSpan(body[MapArg].span.lo,
                                          body[MapArg].span.lo,
                                          body[MapArg].span.ctxt),
                          text |-> unwrap_snippet \o ", "]
        IN  IF unwrap_snippet = "None"
            THEN parts = << [span |-> map_span, text |-> "and_then"], deletion >>
            ELSE /\ parts = << [span |-> map_span, text |-> "map_or"],
                               deletion, insertion >>
                 /\ diags[i].msg =
                        "called 'map(<f>).unwrap_or(<a>)' on an 'Option' value. This can be done more directly by calling 'map_or(<a>, <f>)' instead"

\* C5 witness: a three-part edit was emitted.
C5_Witness ==
    /\ pc = "done"
    /\ Emitted
    /\ unwrap_snippet = "x1.clone()"
    /\ Len(diags[1].suggestion) = 3

\* C6 as stated: the binding set handed to the ReferenceVisitor is the set of
\* locals referenced inside the map argument.
C6_IdentifiersFromMapArg ==
    pc = "scan" => ref_identifiers = LocalsReferencedIn(MapArg)

\* C6 as amended: the binding set handed to the ReferenceVisitor is the set of
\* locals referenced inside the unwrap_or argument.
C6_IdentifiersFromUnwrapArg ==
    pc = "scan" => /\ collect_root = UnwrapArg
                   /\ ref_identifiers = LocalsReferencedIn(UnwrapArg)

\* C6 witness: the scanner runs with a non-empty set that is not the set of
\* locals of the map argument.
C6_Witness ==
    /\ pc = "scan"
    /\ ref_identifiers # {}
    /\ LocalsReferencedIn(MapArg) # {}
    /\ ref_identifiers \cap LocalsReferencedIn(MapArg) = {}

\* C7: when the UnwrapVisitor is through with a sub-tree, its set is exactly
\* the set of local bindings that path expressions of the sub-tree resolve to,
\* at any depth; before that it never holds anything else.
C7_CollectorExact ==
    /\ (collect_root # NoNode)
        => unwrap_identifiers \subseteq LocalsReferencedIn(collect_root)
    /\ (collect_root # NoNode /\ unwrap_stack = <<>>)
        => unwrap_identifiers = LocalsReferencedIn(collect_root)

\* C7 witness: the visitor is through with wrap(x1, || { x2 }): one local at
\* the top of the call, another inside the block of the nested closure, and a
\* path to the item wrap.
C7_Witness ==
    /\ collect_root = UnwrapArg
    /\ unwrap_stack = <<>>
    /\ body[UnwrapArg].kind = "Call"
    /\ body[10].res = ResLocal(1)
    /\ body[13].res = ResLocal(2)
    /\ unwrap_identifiers = {1, 2}

\* C8 as stated: no suggestion for a candidate whose unwrap_or argument is
\* None.
C8_NoneNeverLinted ==
    body[UnwrapArg].text = "None" => ~Emitted

\* C8 as amended: for an Option receiver, an unwrap_or argument None and equal
\* syntax contexts, check emits a suggestion, and with the snippet None it is
\* the two-part and_then edit.
C8_NoneGetsAndThen ==
    (pc = "done" /\ is_option /\ body[UnwrapArg].text = "None" /\ SameCtxt)
    => /\ Emitted
       /\ unwrap_snippet = "None"
            => /\ Len(diags[1].suggestion) = 2
               /\ diags[1].suggestion[1].text = "and_then"
               /\ diags[1].help = "use 'and_then(<f>)' instead"

\* C8 witness: the and_then edit was emitted for unwrap_or(None).
C8_Witness ==
    /\ pc = "done"
    /\ body[UnwrapArg].text = "None"
    /\ unwrap_snippet = "None"
    /\ Emitted
    /\ diags[1].suggestion[1].text = "and_then"

\* C9: applicability is MachineApplicable when the snippet is asked for; the
\* emitted edit carries the applicability the snippet extraction left; and a
\* candidate that passed the tests gets its suggestion whether or not the
\* applicability was downgraded.
C9_ApplicabilityCarried ==
    /\ pc = "snippet" => applicability = "MachineApplicable"
    /\ \A i \in 1..Len(diags) : diags[i].applicability = applicability
    /\ (pc = "done" /\ is_option /\ (is_copy \/ ~found_reference) /\ SameCtxt)
        => Emitted

\* C9 witness: a suggestion was emitted with a downgraded applicability.
C9_Witness ==
    /\ pc = "done"
    /\ Emitted
    /\ diags[1].applicability = "HasPlaceholders"
    /\ unwrap_snippet = ".."

\* C10: found_reference is false when the scan starts; it is set only by a
\* node that passes the conflict test while no node tested before did; once
\* set it stays set and no further node is tested or walked; the verdict at
\* the end of the scan is whether a tested node passed the test.
C10_FirstMatchWins ==
    [][ /\ (pc # "scan" /\ pc' = "scan") => ~found_reference'
        /\ found_reference
            => /\ found_reference'
               /\ tested' = tested
               /\ descended' = descended
        /\ (~found_reference /\ found_reference')
            => /\ pc = "scan"
               /\ ConflictTest(Head(ref_stack))
               /\ \A n \in tested : ~ConflictTest(n)
        /\ (pc = "scan" /\ pc' # "scan")
            => (found_reference <=> \E n \in tested : ConflictTest(n))
      ]_vars

\* C10 witness: the scan ended with the flag set by the earlier statement,
\* all later nodes left untested.
C10_Witness ==
    /\ pc = "scan"
    /\ ref_stack = <<>>
    /\ found_reference
    /\ tested = {BodyRoot, StmtNode}
    /\ descended = tested

====
